---- MODULE Spec2Model ----
(***************************************************************************)
(* Model of vimeo/auth.py: the three OAuth2 helper functions               *)
(*   get_auth_url, get_access_token, get_client_credentials                *)
(* and the HTTP collaborator (tornado HTTPClient.fetch) they call.         *)
(*                                                                         *)
(* A Python string is modelled as a sequence of fragments (TLA+ strings):  *)
(* concatenation is \o, a %s substitution splices the argument in place.   *)
(* Client ids and secrets are sequences of one-character fragments so that *)
(* base64 can be computed on their bytes.                                  *)
(***************************************************************************)
EXTENDS Integers, Sequences, FiniteSets, TLC

\* Longest scope list a caller passes.
MaxScopes == 2

-----------------------------------------------------------------------------
(* Generic helpers *)

Range(s) == {s[i] : i \in 1..Len(s)}

SeqsUpTo(S, n) == UNION {[1..k -> S] : k \in 0..n}

\* Python's None where a string is expected (response.error).
None == "None"

-----------------------------------------------------------------------------
(* get_auth_url, lines 28-64 *)

\* choices = ['interact', 'private', 'public', 'create', 'edit', 'delete', 'upload']
choices == <<"interact", "private", "public", "create", "edit", "delete", "upload">>

\* A scopes argument: absent (None) or a list. `present` is FALSE for None.
NoScopes == [present |-> FALSE, list |-> <<>>]
ScopeList(l) == [present |-> TRUE, list |-> l]

\* Python truthiness of the scopes argument: None and [] are falsy.
Truthy(scopes) == scopes.present /\ scopes.list # <<>>

\* Mutant: the membership test is dropped.
NotInChoices_Never(scope) == FALSE

\* scope not in choices
NotInChoices(scope) == scope \notin Range(choices)

\* "%s/oauth/authorize?response_type=code&client_id=%s&scope=" % (api_root, cid)
AuthUrlPrefix(api_root, cid) ==
    api_root \o <<"/oauth/authorize?response_type=code&client_id=">> \o cid \o <<"&scope=">>

\* Mutant: no default, an empty list stays empty.
EffectiveScopes_NoDefault(scopes) == scopes.list

\* if not scopes: scopes = copy(choices)
EffectiveScopes(scopes) == IF ~Truthy(scopes) THEN choices ELSE scopes.list

\* Mutant: the separator joins the scopes instead of following each.
AppendScope_Joined(url, scope) ==
    IF url[Len(url)] = "&scope=" THEN url \o <<scope>> ELSE url \o <<"+", scope>>

\* auth_url += "%s+" % scope
AppendScope(url, scope) == url \o <<scope, "+">>

\* auth_url += "&redirect_uri=%s" % (redirect)
AppendRedirect(url, redirect) == url \o <<"&redirect_uri=">> \o redirect

\* ValueError("Scope must be one of %s (found scope '%s')" % (choices, scope))
ScopeError(scope) ==
    [kind |-> "raise", exc |-> "ValueError",
     value |-> <<"Scope must be one of ">> \o choices \o <<" (found scope '", scope, "')">>]

-----------------------------------------------------------------------------
(* Library conversions the exchange functions call *)

\* Byte values of the characters client ids and secrets are drawn from.
Ord == ("a" :> 97) @@ ("b" :> 98) @@ ("s" :> 115) @@ ("t" :> 116) @@
       ("1" :> 49) @@ (":" :> 58)

\* The base64 alphabet, index 0 first.
B64Alphabet ==
    <<"A","B","C","D","E","F","G","H","I","J","K","L","M","N","O","P",
      "Q","R","S","T","U","V","W","X","Y","Z","a","b","c","d","e","f",
      "g","h","i","j","k","l","m","n","o","p","q","r","s","t","u","v",
      "w","x","y","z","0","1","2","3","4","5","6","7","8","9","+","/">>

B64Char(i) == B64Alphabet[i + 1]

\* One group of 1..3 bytes -> 4 output characters, '=' padded.
B64Group(b) ==
    LET n == b[1] * 65536
             + (IF Len(b) >= 2 THEN b[2] * 256 ELSE 0)
             + (IF Len(b) >= 3 THEN b[3] ELSE 0)
    IN  <<B64Char(n \div 262144), B64Char((n \div 4096) % 64),
          IF Len(b) >= 2 THEN B64Char((n \div 64) % 64) ELSE "=",
          IF Len(b) >= 3 THEN B64Char(n % 64) ELSE "=">>

RECURSIVE B64Bytes(_)
B64Bytes(b) ==
    IF Len(b) = 0 THEN <<>>
    ELSE IF Len(b) <= 3 THEN B64Group(b)
    ELSE B64Group(SubSeq(b, 1, 3)) \o B64Bytes(SubSeq(b, 4, Len(b)))

\* base64.b64encode(s)
b64encode(s) == B64Bytes([i \in 1..Len(s) |-> Ord[s[i]]])

\* Mutant: secret and client id swapped.
Credentials_Swapped(cid, secret) == secret \o <<":">> \o cid

\* "%s:%s" % (cid, secret)
Credentials(cid, secret) == cid \o <<":">> \o secret

\* urllib.quote_plus: letters, digits and '_.-' are kept, ' ' becomes '+',
\* every other character becomes %XX.
QuoteTable ==
    (":" :> "%3A") @@ ("/" :> "%2F") @@ (" " :> "+") @@ ("+" :> "%2B") @@
    ("%" :> "%25") @@ ("[" :> "%5B") @@ ("]" :> "%5D") @@ ("'" :> "%27") @@
    ("," :> "%2C") @@ ("&" :> "%26") @@ ("=" :> "%3D") @@ ("?" :> "%3F")

quote_plus(s) ==
    [i \in 1..Len(s) |-> IF s[i] \in DOMAIN QuoteTable THEN QuoteTable[s[i]] ELSE s[i]]

\* A payload value is a str or a list of str.
Str(s) == [type |-> "str", v |-> s]
List(l) == [type |-> "list", v |-> l]

\* repr of a list of str: ['a', 'b']
RECURSIVE ReprItems(_)
ReprItems(l) ==
    IF Len(l) = 0 THEN <<>>
    ELSE <<"'", l[1], "'">> \o
         (IF Len(l) = 1 THEN <<>> ELSE <<",", " ">> \o ReprItems(Tail(l)))

\* str(v) as urlencode applies it to each value
PyStr(val) == IF val.type = "str" THEN val.v ELSE <<"[">> \o ReprItems(val.v) \o <<"]">>

\* urllib.urlencode(payload): the k=v pairs, joined by '&' in dict order
\* (the order of a Python 2 dict is unspecified: the body is their set).
urlencode(payload) ==
    {quote_plus(<<k>>) \o <<"=">> \o quote_plus(PyStr(payload[k])) : k \in DOMAIN payload}

-----------------------------------------------------------------------------
(* json.loads on the token stream of a response body *)

Punct(c) == [t |-> "punct", v |-> c]
JStr(s) == [t |-> "str", v |-> s]
JNum(digits) == [t |-> "num", v |-> digits]
JNull == [t |-> "lit", v |-> "null"]
JBad(s) == [t |-> "bad", v |-> s]

IsScalar(tok) == tok.t \in {"str", "num", "lit"}

\* The Python value of a scalar token.
ScalarValue(tok) ==
    [type |-> IF tok.t = "str" THEN "unicode" ELSE IF tok.t = "num" THEN "int" ELSE "NoneType",
     v |-> tok.v]

\* '{' [ string ':' scalar { ',' string ':' scalar } ] '}'
IsObject(toks) ==
    /\ Len(toks) >= 2
    /\ toks[1] = Punct("{")
    /\ toks[Len(toks)] = Punct("}")
    /\ LET n == Len(toks) - 2
       IN  \/ n = 0
           \/ /\ n % 4 = 3
              /\ \A j \in 1..n :
                    LET tok == toks[j + 1]
                    IN  CASE j % 4 = 1 -> tok.t = "str"
                          [] j % 4 = 2 -> tok = Punct(":")
                          [] j % 4 = 3 -> IsScalar(tok)
                          [] OTHER     -> tok = Punct(",")

\* '[' [ scalar { ',' scalar } ] ']'
IsArray(toks) ==
    /\ Len(toks) >= 2
    /\ toks[1] = Punct("[")
    /\ toks[Len(toks)] = Punct("]")
    /\ LET n == Len(toks) - 2
       IN  \/ n = 0
           \/ /\ n % 2 = 1
              /\ \A j \in 1..n :
                    IF j % 2 = 1 THEN IsScalar(toks[j + 1]) ELSE toks[j + 1] = Punct(",")

\* Members of an object: a repeated key keeps its last value.
ObjectKeys(toks) == {toks[j].v : j \in {i \in 2..(Len(toks) - 1) : (i - 1) % 4 = 1}}

ObjectMember(toks, key) ==
    LET at == {i \in 2..(Len(toks) - 1) : (i - 1) % 4 = 1 /\ toks[i].v = key}
        last == CHOOSE i \in at : \A j \in at : j <= i
    IN  ScalarValue(toks[last + 2])

\* json.loads(body): ok = FALSE is the ValueError json.loads raises.
json_loads(body) ==
    IF IsObject(body) THEN [ok |-> TRUE, type |-> "dict", toks |-> body]
    ELSE IF IsArray(body) THEN [ok |-> TRUE, type |-> "list", toks |-> body]
    ELSE IF Len(body) = 1 /\ IsScalar(body[1])
         THEN [ok |-> TRUE, type |-> ScalarValue(body[1]).type, toks |-> body]
    ELSE [ok |-> FALSE, type |-> "invalid", toks |-> body]

Return(v) == [kind |-> "return", exc |-> "none", value |-> v]
Raise(exc, v) == [kind |-> "raise", exc |-> exc, value |-> v]

\* Mutant: the first member of the object is returned, whatever its key.
ParseToken_FirstMember(body) ==
    LET parsed == json_loads(body)
    IN  IF ~parsed.ok THEN Raise("ValueError", <<"No JSON object could be decoded">>)
        ELSE IF parsed.type # "dict" THEN Raise("TypeError", <<parsed.type>>)
        ELSE IF "access_token" \notin ObjectKeys(body) THEN Raise("KeyError", <<"access_token">>)
        ELSE Return(ScalarValue(body[4]))

\* json.loads(response.body)['access_token']
ParseToken(body) ==
    LET parsed == json_loads(body)
    IN  IF ~parsed.ok THEN Raise("ValueError", <<"No JSON object could be decoded">>)
        ELSE IF parsed.type # "dict" THEN Raise("TypeError", <<parsed.type>>)
        ELSE IF "access_token" \notin ObjectKeys(body) THEN Raise("KeyError", <<"access_token">>)
        ELSE Return(ObjectMember(body, "access_token"))

-----------------------------------------------------------------------------
(* The exchange functions, lines 66-137 *)

AcceptHeader == <<"application/vnd.vimeo.*+json; version=3.2">>

\* headers = {"Accept": ..., "Authorization": "Basic %s" % encoded}
BasicAuthHeaders(cid, secret) ==
    [Accept |-> AcceptHeader,
     Authorization |-> <<"Basic ">> \o b64encode(Credentials(cid, secret))]

\* get_access_token: payload, lines 92-94
AccessTokenPayload(auth_code, redirect) ==
    [grant_type |-> Str(<<"authorization_code">>),
     code |-> Str(auth_code),
     redirect_uri |-> Str(redirect)]

\* get_access_token: the arguments of HTTPClient().fetch, lines 98-102
AccessTokenRequest(auth_code, cid, secret, redirect, api_root) ==
    [url |-> api_root \o <<"/oauth/access_token">>,
     method |-> "POST",
     headers |-> BasicAuthHeaders(cid, secret),
     body |-> urlencode(AccessTokenPayload(auth_code, redirect)),
     validate_cert |-> "True"]

\* Mutant: without scopes, all the choices are requested, as get_auth_url does.
ClientCredentialsPayload_DefaultAll(scopes) ==
    [grant_type |-> Str(<<"client_credentials">>), scope |-> List(EffectiveScopes(scopes))]

\* get_client_credentials: payload, lines 122 and 126-127
ClientCredentialsPayload(scopes) ==
    IF Truthy(scopes)
    THEN [grant_type |-> Str(<<"client_credentials">>), scope |-> List(scopes.list)]
    ELSE [grant_type |-> Str(<<"client_credentials">>)]

\* get_client_credentials: the arguments of HTTPClient().fetch, lines 129-132
\* (validate_cert is not passed).
ClientCredentialsRequest(cid, secret, scopes, api_root) ==
    [url |-> api_root \o <<"/oauth/authorize/client">>,
     method |-> "POST",
     headers |-> BasicAuthHeaders(cid, secret),
     body |-> urlencode(ClientCredentialsPayload(scopes)),
     validate_cert |-> "unset"]

\* if response.error
HasError(resp) == resp.error # None

\* Mutant: the body is parsed before the error is looked at.
AccessTokenOutcome_ParseFirst(resp) ==
    IF ParseToken(resp.body).kind = "return" \/ ~HasError(resp)
    THEN [result |-> ParseToken(resp.body), loads |-> 1]
    ELSE [result |-> Raise("ValueError", <<resp.error>>), loads |-> 1]

\* get_access_token, lines 103-106: the outcome and the number of json.loads calls
AccessTokenOutcome(resp) ==
    IF HasError(resp)
    THEN [result |-> Raise("ValueError", <<resp.error>>), loads |-> 0]
    ELSE [result |-> ParseToken(resp.body), loads |-> 1]

\* get_client_credentials, lines 134-137
ClientCredentialsOutcome(resp) ==
    IF HasError(resp)
    THEN [result |-> Raise("ValueError", <<resp.error>>), loads |-> 0]
    ELSE [result |-> ParseToken(resp.body), loads |-> 1]

-----------------------------------------------------------------------------
(* Inputs *)

ApiRoots == {<<"https://api.vimeo.com">>, <<"https://api.example.test">>}
ClientIds == {<<"a">>, <<"a", "b">>}
Secrets == {<<"s">>, <<"s", "t">>, <<"s", "1", "t">>}
Redirects == {<<"https", ":", "/", "/", "app.example.com", "/", "cb">>,
              <<"cb", "?", "a", "=", "1", "&", "b">>}
AuthCodes == {<<"code1">>, <<"a", "+", "b">>, <<"x", " ", "%">>}

\* Scope values a caller passes: the seven choices and two that are not.
ScopeNames == Range(choices) \cup {"bogus", "Public"}

\* scopes arguments of get_auth_url: absent, the full list, every short list.
ScopeArgs ==
    {NoScopes, ScopeList(choices)} \cup {ScopeList(l) : l \in SeqsUpTo(ScopeNames, MaxScopes)}

\* scopes arguments of get_client_credentials, which passes them through.
ClientScopeArgs ==
    {NoScopes} \cup {ScopeList(l) : l \in SeqsUpTo({"public", "private", "bogus"}, MaxScopes)}

\* What the HTTP collaborator reports in response.error when the fetch failed.
Errors == {"HTTP 599: Timeout", "HTTP 401: Unauthorized"}

TokenPair(v) == <<JStr("access_token"), Punct(":"), v>>

\* Response bodies, as token streams.
Bodies ==
    { <<Punct("{")>> \o TokenPair(JStr("tok123")) \o <<Punct("}")>>,
      <<Punct("{")>> \o TokenPair(JStr("tokXYZ")) \o <<Punct("}")>>,
      <<Punct("{"), JStr("token_type"), Punct(":"), JStr("bearer"), Punct(",")>>
          \o TokenPair(JStr("tok123")) \o <<Punct("}")>>,
      <<Punct("{")>> \o TokenPair(JStr("tok123")) \o <<Punct(",")>>
          \o TokenPair(JStr("tokXYZ")) \o <<Punct("}")>>,
      <<Punct("{")>> \o TokenPair(JNull) \o <<Punct("}")>>,
      <<Punct("{")>> \o TokenPair(JNum("42")) \o <<Punct("}")>>,
      <<Punct("{"), JStr("error"), Punct(":"), JStr("invalid_grant"), Punct("}")>>,
      <<Punct("{"), Punct("}")>>,
      <<Punct("["), JStr("tok123"), Punct("]")>>,
      <<JStr("tok123")>>,
      <<JNull>>,
      <<>>,
      <<JBad("<html>")>>,
      <<Punct("{")>> \o TokenPair(JStr("tok123")),
      <<Punct("{"), JStr("access_token"), JStr("tok123"), Punct("}")>> }

\* The responses fetch may return: any body, with or without an error.
Responses == {[error |-> e, body |-> b] : e \in {None} \cup Errors, b \in Bodies}

-----------------------------------------------------------------------------
(* State *)

VARIABLES
    pc,         \* "idle", "auth_url_loop", "fetching", "fetched", "done"
    op,         \* the function being executed
    args,       \* its arguments
    auth_url,   \* get_auth_url: local auth_url
    scopes,     \* get_auth_url: the list the for loop iterates
    idx,        \* get_auth_url: position of the for loop
    payload,    \* exchange functions: local payload
    requests,   \* the fetch calls the invocation has made
    response,   \* what fetch returned
    loads,      \* number of json.loads calls the invocation has made
    result      \* the value returned or the exception raised

vars == <<pc, op, args, auth_url, scopes, idx, payload, requests, response, loads, result>>

NoArgs == [api_root |-> <<>>, cid |-> <<>>, secret |-> <<>>, scopes |-> NoScopes,
           redirect |-> <<>>, auth_code |-> <<>>]
NoResponse == [error |-> None, body |-> <<>>]
NoResult == [kind |-> "none", exc |-> "none", value |-> <<>>]

Init ==
    /\ pc = "idle"
    /\ op = "none"
    /\ args = NoArgs
    /\ auth_url = <<>>
    /\ scopes = <<>>
    /\ idx = 0
    /\ payload = <<>>
    /\ requests = <<>>
    /\ response = NoResponse
    /\ loads = 0
    /\ result = NoResult

\* A caller may invoke a function when none is executing.
CanCall == pc = "idle"

\* get_auth_url, lines 53-58
GetAuthUrlCall(api_root, cid, scps, redirect) ==
    /\ CanCall
    /\ op' = "get_auth_url"
    /\ args' = [NoArgs EXCEPT !.api_root = api_root, !.cid = cid,
                              !.scopes = scps, !.redirect = redirect]
    /\ auth_url' = AuthUrlPrefix(api_root, cid)
    /\ scopes' = EffectiveScopes(scps)
    /\ idx' = 1
    /\ payload' = <<>>
    /\ requests' = <<>>
    /\ response' = NoResponse
    /\ loads' = 0
    /\ result' = NoResult
    /\ pc' = "auth_url_loop"

\* get_auth_url, lines 59-62: one iteration of the for loop
GetAuthUrlLoop ==
    /\ pc = "auth_url_loop"
    /\ idx <= Len(scopes)
    /\ IF NotInChoices(scopes[idx])
       THEN /\ result' = ScopeError(scopes[idx])
            /\ pc' = "done"
            /\ UNCHANGED <<auth_url, idx>>
       ELSE /\ auth_url' = AppendScope(auth_url, scopes[idx])
            /\ idx' = idx + 1
            /\ UNCHANGED <<result, pc>>
    /\ UNCHANGED <<op, args, scopes, payload, requests, response, loads>>

\* get_auth_url, lines 63-64
GetAuthUrlReturn ==
    /\ pc = "auth_url_loop"
    /\ idx > Len(scopes)
    /\ auth_url' = AppendRedirect(auth_url, args.redirect)
    /\ result' = Return(auth_url')
    /\ pc' = "done"
    /\ UNCHANGED <<op, args, scopes, idx, payload, requests, response, loads>>

\* get_access_token, lines 90-102: build the request and call fetch
GetAccessTokenCall(auth_code, cid, secret, redirect, api_root) ==
    /\ CanCall
    /\ op' = "get_access_token"
    /\ args' = [NoArgs EXCEPT !.api_root = api_root, !.cid = cid, !.secret = secret,
                              !.redirect = redirect, !.auth_code = auth_code]
    /\ payload' = AccessTokenPayload(auth_code, redirect)
    /\ requests' = <<AccessTokenRequest(auth_code, cid, secret, redirect, api_root)>>
    /\ auth_url' = <<>>
    /\ scopes' = <<>>
    /\ idx' = 0
    /\ response' = NoResponse
    /\ loads' = 0
    /\ result' = NoResult
    /\ pc' = "fetching"

\* get_client_credentials, lines 121-132: build the request and call fetch
GetClientCredentialsCall(cid, secret, scps, api_root) ==
    /\ CanCall
    /\ op' = "get_client_credentials"
    /\ args' = [NoArgs EXCEPT !.api_root = api_root, !.cid = cid, !.secret = secret,
                              !.scopes = scps]
    /\ payload' = ClientCredentialsPayload(scps)
    /\ requests' = <<ClientCredentialsRequest(cid, secret, scps, api_root)>>
    /\ auth_url' = <<>>
    /\ scopes' = <<>>
    /\ idx' = 0
    /\ response' = NoResponse
    /\ loads' = 0
    /\ result' = NoResult
    /\ pc' = "fetching"

\* HTTPClient().fetch returns a response{error, body}
Fetch(resp) ==
    /\ pc = "fetching"
    /\ response' = resp
    /\ pc' = "fetched"
    /\ UNCHANGED <<op, args, auth_url, scopes, idx, payload, requests, loads, result>>

\* Mutant: on an error response the request is issued once more.
GetAccessTokenReturn_Retry ==
    /\ pc = "fetched"
    /\ op = "get_access_token"
    /\ IF HasError(response) /\ Len(requests) < 2
       THEN /\ requests' = Append(requests, requests[1])
            /\ pc' = "fetching"
            /\ UNCHANGED <<result, loads>>
       ELSE /\ result' = AccessTokenOutcome(response).result
            /\ loads' = loads + AccessTokenOutcome(response).loads
            /\ pc' = "done"
            /\ UNCHANGED requests
    /\ UNCHANGED <<op, args, auth_url, scopes, idx, payload, response>>

\* get_access_token, lines 103-106
GetAccessTokenReturn ==
    /\ pc = "fetched"
    /\ op = "get_access_token"
    /\ result' = AccessTokenOutcome(response).result
    /\ loads' = loads + AccessTokenOutcome(response).loads
    /\ pc' = "done"
    /\ UNCHANGED <<op, args, auth_url, scopes, idx, payload, requests, response>>

\* get_client_credentials, lines 134-137
GetClientCredentialsReturn ==
    /\ pc = "fetched"
    /\ op = "get_client_credentials"
    /\ result' = ClientCredentialsOutcome(response).result
    /\ loads' = loads + ClientCredentialsOutcome(response).loads
    /\ pc' = "done"
    /\ UNCHANGED <<op, args, auth_url, scopes, idx, payload, requests, response>>

\* The function has returned or raised: its frame is gone, and the module
\* keeps no state between calls.
Finish ==
    /\ pc = "done"
    /\ pc' = "idle"
    /\ op' = "none"
    /\ args' = NoArgs
    /\ auth_url' = <<>>
    /\ scopes' = <<>>
    /\ idx' = 0
    /\ payload' = <<>>
    /\ requests' = <<>>
    /\ response' = NoResponse
    /\ loads' = 0
    /\ result' = NoResult

Next ==
    \/ /\ CanCall
       /\ \E api_root \in ApiRoots, cid \in ClientIds, scps \in ScopeArgs,
             redirect \in Redirects :
             GetAuthUrlCall(api_root, cid, scps, redirect)
    \/ GetAuthUrlLoop
    \/ GetAuthUrlReturn
    \/ /\ CanCall
       /\ \E auth_code \in AuthCodes, cid \in ClientIds, secret \in Secrets,
             redirect \in Redirects, api_root \in ApiRoots :
             GetAccessTokenCall(auth_code, cid, secret, redirect, api_root)
    \/ /\ CanCall
       /\ \E cid \in ClientIds, secret \in Secrets, scps \in ClientScopeArgs,
             api_root \in ApiRoots :
             GetClientCredentialsCall(cid, secret, scps, api_root)
    \/ /\ pc = "fetching"
       /\ \E resp \in Responses : Fetch(resp)
    \/ GetAccessTokenReturn
    \/ GetClientCredentialsReturn
    \/ Finish

Spec == Init /\ [][Next]_vars

\* fetch blocks until the HTTP client returns a response (it enforces its own
\* timeout), and the synchronous code after it then runs to its return.
LiveSpec ==
    /\ Spec
    /\ WF_vars(pc = "fetching" /\ \E resp \in Responses : Fetch(resp))
    /\ WF_vars(GetAccessTokenReturn)
    /\ WF_vars(GetClientCredentialsReturn)

-----------------------------------------------------------------------------
(* Vocabulary of the properties *)

ExchangeOps == {"get_access_token", "get_client_credentials"}

\* The enumerated scope set of the data model, in its documented order.
EnumeratedScopes ==
    <<"interact", "private", "public", "create", "edit", "delete", "upload">>

Enumerated(s) ==
    s \in {"interact", "private", "public", "create", "edit", "delete", "upload"}

\* The exchange function has returned or raised.
ExchangeDone == pc = "done" /\ op \in ExchangeOps

\* The response body is a JSON object that has the field access_token.
BodyHasToken == IsObject(response.body) /\ "access_token" \in ObjectKeys(response.body)

\* l[1], '+', l[2], '+', ... : every scope followed by the separator.
ScopesWithSeparator(l) ==
    [j \in 1..(2 * Len(l)) |-> IF j % 2 = 1 THEN l[(j + 1) \div 2] ELSE "+"]

\* The authorization URL for a list of scopes.
ExpectedUrl(api_root, cid, l, redirect) ==
    api_root \o <<"/oauth/authorize?response_type=code&client_id=">> \o cid
             \o <<"&scope=">> \o ScopesWithSeparator(l)
             \o <<"&redirect_uri=">> \o redirect

HasInvalidScope(l) == \E j \in 1..Len(l) : ~Enumerated(l[j])

FirstInvalid(l) ==
    CHOOSE j \in 1..Len(l) : ~Enumerated(l[j]) /\ \A k \in 1..(j - 1) : Enumerated(l[k])

Count(seq, x) == Cardinality({j \in 1..Len(seq) : seq[j] = x})

\* Form decoding, as the server applies it to a request body.
DecodeTable ==
    ("%3A" :> ":") @@ ("%2F" :> "/") @@ ("+" :> " ") @@ ("%2B" :> "+") @@
    ("%25" :> "%") @@ ("%5B" :> "[") @@ ("%5D" :> "]") @@ ("%27" :> "'") @@
    ("%2C" :> ",") @@ ("%26" :> "&") @@ ("%3D" :> "=") @@ ("%3F" :> "?")

unquote_plus(s) ==
    [j \in 1..Len(s) |-> IF s[j] \in DOMAIN DecodeTable THEN DecodeTable[s[j]] ELSE s[j]]

EqualsAt(pair) == CHOOSE j \in 1..Len(pair) : pair[j] = "=" /\ \A k \in 1..(j - 1) : pair[k] # "="

FormKey(pair) == unquote_plus(SubSeq(pair, 1, EqualsAt(pair) - 1))
FormValue(pair) == unquote_plus(SubSeq(pair, EqualsAt(pair) + 1, Len(pair)))

\* The decoded fields of a form body.
FormFields(body) == {<<FormKey(pair), FormValue(pair)>> : pair \in body}
FormKeys(body) == {FormKey(pair) : pair \in body}

\* Base64 decoding, as the server applies it to the Authorization header.
B64Index(c) == IF c = "=" THEN 0 ELSE CHOOSE j \in 0..63 : B64Alphabet[j + 1] = c

Chr(n) == IF \E c \in DOMAIN Ord : Ord[c] = n THEN CHOOSE c \in DOMAIN Ord : Ord[c] = n ELSE "?"

B64DecodeGroup(g) ==
    LET n == B64Index(g[1]) * 262144 + B64Index(g[2]) * 4096
             + B64Index(g[3]) * 64 + B64Index(g[4])
        pad == Count(g, "=")
    IN  SubSeq(<<Chr(n \div 65536), Chr((n \div 256) % 256), Chr(n % 256)>>, 1, 3 - pad)

RECURSIVE B64Decode(_)
B64Decode(s) ==
    IF Len(s) < 4 THEN <<>>
    ELSE B64DecodeGroup(SubSeq(s, 1, 4)) \o B64Decode(SubSeq(s, 5, Len(s)))

\* The headers carry Basic authentication for cid:secret and the versioned Accept.
HeadersFor(headers, cid, secret) ==
    /\ DOMAIN headers = {"Accept", "Authorization"}
    /\ headers.Accept = <<"application/vnd.vimeo.*+json; version=3.2">>
    /\ Len(headers.Authorization) >= 1
    /\ headers.Authorization[1] = "Basic "
    /\ B64Decode(Tail(headers.Authorization)) = cid \o <<":">> \o secret

-----------------------------------------------------------------------------
(* Properties *)

\* C1: in both exchange functions, when the response reports an error the
\* function raises the exchange error (ValueError) wrapping that error,
\* returns no token and has not called json.loads, whatever the body holds.
C1_ErrorRaisedBeforeParsing ==
    (ExchangeDone /\ response.error # None) =>
        /\ result.kind = "raise"
        /\ result.exc = "ValueError"
        /\ result.value = <<response.error>>
        /\ loads = 0

\* C1 witness: an error response whose body holds a well-formed token was handled.
C1_Witness ==
    /\ ExchangeDone
    /\ op = "get_access_token"
    /\ response.error # None
    /\ BodyHasToken
    /\ result.kind = "raise"

\* C2: in both exchange functions, when the response reports no error and
\* the body is a JSON object with the field access_token, the function
\* returns exactly the value of that field and raises nothing.
C2_TokenReturned ==
    (ExchangeDone /\ response.error = None /\ BodyHasToken) =>
        /\ result.kind = "return"
        /\ result.value = ObjectMember(response.body, "access_token")

\* C2 witness: a token was returned from an object that has other fields too.
C2_Witness ==
    /\ ExchangeDone
    /\ op = "get_client_credentials"
    /\ response.error = None
    /\ "token_type" \in ObjectKeys(response.body)
    /\ result = Return([type |-> "unicode", v |-> "tok123"])

\* C3 (as stated): a scope list with a value outside the enumerated set makes
\* get_auth_url fail with the validation error naming the invalid scope,
\* before any partial URL has been constructed, with no URL returned and no
\* network call.
C3_NoPartialUrl ==
    (pc = "done" /\ op = "get_auth_url" /\ HasInvalidScope(args.scopes.list)) =>
        /\ result.kind = "raise"
        /\ result.exc = "ValueError"
        /\ auth_url = <<>>
        /\ requests = <<>>

\* C3 (amended): such a list makes get_auth_url fail with the validation
\* error naming the first invalid scope and listing the allowed set, with no
\* URL returned and no network call; the URL prefix and the valid scopes
\* before the invalid one are already in the local URL string when it fails.
C3_InvalidScopeRejected ==
    (pc = "done" /\ op = "get_auth_url" /\ HasInvalidScope(args.scopes.list)) =>
        LET l == args.scopes.list
            bad == FirstInvalid(l)
        IN  /\ result.kind = "raise"
            /\ result.exc = "ValueError"
            /\ result.value = <<"Scope must be one of ">> \o EnumeratedScopes
                                  \o <<" (found scope '", l[bad], "')">>
            /\ requests = <<>>
            /\ auth_url = args.api_root
                            \o <<"/oauth/authorize?response_type=code&client_id=">>
                            \o args.cid \o <<"&scope=">>
                            \o ScopesWithSeparator(SubSeq(l, 1, bad - 1))

\* C3 witness: the invalid scope came after a valid one.
C3_Witness ==
    /\ pc = "done"
    /\ op = "get_auth_url"
    /\ args.scopes.list = <<"public", "bogus">>
    /\ result.kind = "raise"

\* C4: for a non-empty list of enumerated scopes get_auth_url returns the
\* prefix with api_root and client_id, then the scopes in the caller's order,
\* each followed by '+', then '&redirect_uri=' and the redirect URI.
C4_UrlOfValidScopes ==
    (pc = "done" /\ op = "get_auth_url" /\ args.scopes.list # <<>>
        /\ ~HasInvalidScope(args.scopes.list)) =>
        result = [kind |-> "return", exc |-> "none",
                  value |-> ExpectedUrl(args.api_root, args.cid,
                                        args.scopes.list, args.redirect)]

\* C4 witness: two scopes, not in the order of the enumerated set.
C4_Witness ==
    /\ pc = "done"
    /\ op = "get_auth_url"
    /\ args.scopes.list = <<"upload", "private">>
    /\ result.kind = "return"

\* C5: with an empty or absent scope list get_auth_url returns the URL of the
\* full enumerated set, which holds each of the seven scopes exactly once and
\* is the URL returned when that set is passed explicitly.
C5_DefaultIsAllScopes ==
    (pc = "done" /\ op = "get_auth_url"
        /\ (args.scopes.list = <<>> \/ args.scopes.list = EnumeratedScopes)) =>
        /\ result.kind = "return"
        /\ result.value = ExpectedUrl(args.api_root, args.cid,
                                      EnumeratedScopes, args.redirect)
        /\ \A j \in 1..Len(EnumeratedScopes) :
              Count(result.value, EnumeratedScopes[j]) = 1

\* C5 witness: the scopes argument was absent.
C5_Witness ==
    /\ pc = "done"
    /\ op = "get_auth_url"
    /\ ~args.scopes.present
    /\ result.kind = "return"

\* C6: the body get_client_credentials sends always has
\* grant_type=client_credentials; it has a scope field exactly when the
\* caller gave a non-empty scope list, and nothing but grant_type otherwise.
C6_ScopeFieldOnlyIfSupplied ==
    (op = "get_client_credentials" /\ requests # <<>>) =>
        LET body == requests[1].body
        IN  /\ <<<<"grant_type">>, <<"client_credentials">>>> \in FormFields(body)
            /\ (<<"scope">> \in FormKeys(body)) <=> (args.scopes.list # <<>>)
            /\ (args.scopes.list = <<>>) => FormKeys(body) = {<<"grant_type">>}

\* C6 witness: called with an empty list (not an absent one), request sent.
C6_Witness ==
    /\ op = "get_client_credentials"
    /\ pc = "fetching"
    /\ args.scopes = [present |-> TRUE, list |-> <<>>]
    /\ Len(requests) = 1

\* C7: no request is ever issued with a scope outside the enumerated set.
C7_NoInvalidScopeSent ==
    (requests # <<>> /\ "scope" \in DOMAIN payload) =>
        \A j \in 1..Len(payload.scope.v) : Enumerated(payload.scope.v[j])

\* C8: when the response reports no error but the body is not a JSON object
\* with access_token, the function raises an error whose kind differs from
\* the kind raised for a transport error (ValueError), and returns no token.
C8_ParseFailureDistinct ==
    (ExchangeDone /\ response.error = None /\ ~BodyHasToken) =>
        /\ result.kind = "raise"
        /\ result.exc # "ValueError"

\* C9: an invocation of an exchange function has issued exactly one request
\* from its call on, and ends with a token or an error once the response is
\* there; get_auth_url issues none.
C9_OneRequestThenDone ==
    /\ [](/\ (op \in ExchangeOps) => Len(requests) = 1
          /\ (op \notin ExchangeOps) => requests = <<>>
          /\ ExchangeDone => result.kind \in {"return", "raise"})
    /\ (pc = "fetching") ~> (pc = "done")

\* C9 witness: an exchange ended in a parse failure with one request issued.
C9_Witness ==
    /\ ExchangeDone
    /\ response.error = None
    /\ result.exc = "KeyError"
    /\ Len(requests) = 1

\* C10: the request of get_access_token is a POST to
\* api_root/oauth/access_token with Basic authentication for
\* client_id:client_secret, the versioned Accept header, certificate
\* validation on, and a form body of exactly grant_type=authorization_code,
\* code and redirect_uri as supplied; get_client_credentials sends the same
\* two headers for its own client_id and client_secret.
C10_RequestShape ==
    /\ (op = "get_access_token" /\ requests # <<>>) =>
          LET r == requests[1]
          IN  /\ r.method = "POST"
              /\ r.url = args.api_root \o <<"/oauth/access_token">>
              /\ HeadersFor(r.headers, args.cid, args.secret)
              /\ r.validate_cert = "True"
              /\ FormFields(r.body) = {<<<<"grant_type">>, <<"authorization_code">>>>,
                                       <<<<"code">>, args.auth_code>>,
                                       <<<<"redirect_uri">>, args.redirect>>}
    /\ (op = "get_client_credentials" /\ requests # <<>>) =>
          HeadersFor(requests[1].headers, args.cid, args.secret)

\* C10 witness: a request whose code and redirect URI need form encoding and
\* whose credentials need base64 padding.
C10_Witness ==
    /\ op = "get_access_token"
    /\ pc = "fetching"
    /\ args.auth_code = <<"a", "+", "b">>
    /\ args.redirect = <<"cb", "?", "a", "=", "1", "&", "b">>
    /\ Len(args.cid \o args.secret) = 3

====
